---- MODULE Spec2Model ----
(***************************************************************************)
(* A model of LIPO32SUCTION (src/src/main.rs): the FAT32 boot-sector and   *)
(* extension decoders that main runs, the directory scan of main (the      *)
(* block at lines 281-314) and the field extractors of DirEntry.           *)
(*                                                                         *)
(* Bytes are naturals 0..255.  Rust arrays and slices are sequences; the   *)
(* operator B(t, k) reads the source's 0-based index k.  A String is a     *)
(* sequence: of one-character strings for datetime(), of Unicode scalar    *)
(* values for name().                                                      *)
(***************************************************************************)
EXTENDS Integers, Sequences, FiniteSets, TLC

VARIABLES
  file,               \* the bytes of the opened image (File)
  pos,                \* the file's read position
  pc,                 \* main's position
  fat_header_buf,     \* main: [u8; FATHEADER_SIZE]
  fat32_ext_buf,      \* main: [u8; FAT32EXT_SIZE]
  fat_header,         \* main: FATHeader
  fat32_ext,          \* main: FAT32Ext
  dirs_start_offset,  \* directory scan: args[2]
  no_entries,         \* directory scan: args[3]
  i,                  \* directory scan: iterations of the for loop completed
  buffer,             \* directory scan: [u8; 32]
  current_entry,      \* directory scan: DirEntry being accumulated
  dir_entries,        \* directory scan: Vec<DirEntry>
  out                 \* the values handed to println!

vars == << file, pos, pc, fat_header_buf, fat32_ext_buf, fat_header, fat32_ext,
           dirs_start_offset, no_entries, i, buffer, current_entry,
           dir_entries, out >>

bootVars == << fat_header_buf, fat32_ext_buf, fat_header, fat32_ext >>
dirVars == << dirs_start_offset, no_entries, i, buffer, current_entry,
              dir_entries >>

(***************************************************************************)
(* Machine arithmetic                                                      *)
(***************************************************************************)
Byte == 0..255

\* t[k] of the source (0-based)
B(t, k) == t[k + 1]

\* t[a..=b] of the source (0-based, inclusive)
Slice(t, a, b) == SubSeq(t, a + 1, b + 1)

RECURSIVE BitAnd(_, _)
BitAnd(a, b) ==
  IF a = 0 \/ b = 0 THEN 0
  ELSE (a % 2) * (b % 2) + 2 * BitAnd(a \div 2, b \div 2)

RECURSIVE BitOr(_, _)
BitOr(a, b) ==
  IF a = 0 THEN b
  ELSE IF b = 0 THEN a
  ELSE (IF (a % 2) + (b % 2) > 0 THEN 1 ELSE 0) + 2 * BitOr(a \div 2, b \div 2)

\* !x on a u8
BitNot8(x) == 255 - x

\* x << n on a u8 and on a u16
Shl8(x, n) == (x * (2 ^ n)) % 256

Shl16(x, n) == (x * (2 ^ n)) % 65536

\* A u32 is kept as its two 16-bit words, [hi |-> bits 16..31, lo |-> bits
\* 0..15]: TLC's integers end below 2^31.
\* x as u32, for a u8 or u16 x
U32(x) == [hi |-> 0, lo |-> x]

\* v << n on a u32, n < 32
Shl32(v, n) ==
  IF n >= 16 THEN [hi |-> (v.lo * (2 ^ (n - 16))) % 65536, lo |-> 0]
  ELSE [ hi |-> ((v.hi * (2 ^ n)) % 65536) + ((v.lo * (2 ^ n)) \div 65536),
         lo |-> (v.lo * (2 ^ n)) % 65536 ]

\* x >> n
Shr(x, n) == x \div (2 ^ n)

\* a | b on u32
Or32(a, b) == [hi |-> BitOr(a.hi, b.hi), lo |-> BitOr(a.lo, b.lo)]

\* v / 1024 on a u32 (the quotient is below 2^22)
Div1024(v) == v.hi * 64 + (v.lo \div 1024)

\* [0; n]
Zeros(n) == [k \in 1..n |-> 0]

\* buf after file.read(&mut buf) at position p: the bytes the file still holds
\* there, at most Len(buf), overwrite the front of buf; the rest keeps its
\* contents.  ReadCount is the n of Ok(n), which main discards.
ReadCount(f, p, buf) ==
  IF p >= Len(f) THEN 0
  ELSE IF Len(f) - p < Len(buf) THEN Len(f) - p ELSE Len(buf)

ReadInto(f, p, buf) ==
  [k \in 1..Len(buf) |-> IF k <= ReadCount(f, p, buf) THEN f[p + k] ELSE buf[k]]

(***************************************************************************)
(* Boot sector                                                             *)
(***************************************************************************)
\* mem::size_of::<FATHeader>(): 11 array bytes, seven u16, three u8, two u32
FATHEADER_SIZE == 36

\* mem::size_of::<FAT32Ext>(): 54 bytes of fields, rounded up to the u32
\* alignment of the struct
FAT32EXT_SIZE == 56

\* ((t[hi] as u16) << 8) | (t[lo] as u16)
U16At(t, hi, lo) == BitOr(Shl16(B(t, hi), 8), B(t, lo))

\* ((t[a] as u32) << 24) | ((t[b] as u32) << 16) | ((t[c] as u32) << 8) | (t[d] as u32)
U32At(t, a, b, c, d) ==
  Or32(Or32(Or32(Shl32(U32(B(t, a)), 24), Shl32(U32(B(t, b)), 16)),
            Shl32(U32(B(t, c)), 8)),
       U32(B(t, d)))

FATHeader_from(target) ==
  [ bootjmp               |-> Slice(target, 0, 2),
    oem_name              |-> Slice(target, 3, 10),
    bytes_per_sector      |-> U16At(target, 12, 11),
    sectors_per_cluster   |-> B(target, 13),
    reserved_sector_count |-> U16At(target, 15, 14),
    table_count           |-> B(target, 16),
    root_entry_count      |-> U16At(target, 18, 17),
    total_sectors_16      |-> U16At(target, 20, 19),
    media_type            |-> B(target, 21),
    table_size_16         |-> U16At(target, 23, 22),
    sectors_per_track     |-> U16At(target, 25, 24),
    head_side_count       |-> U16At(target, 27, 26),
    hidden_sector_count   |-> U32At(target, 28, 29, 30, 31),
    total_sectors_32      |-> U32At(target, 32, 33, 34, 35) ]

\* FAT32Ext::from with the bytes of each integer taken high byte first
FAT32Ext_from_BigEndian(target) ==
  [ table_size_32    |-> U32At(target, 0, 1, 2, 3),
    extended_flags   |-> U16At(target, 4, 5),
    fat_version      |-> U16At(target, 6, 7),
    root_cluster     |-> U32At(target, 8, 9, 10, 11),
    fat_info         |-> U16At(target, 12, 13),
    backup_bs_sector |-> U16At(target, 14, 15),
    reserved_0       |-> Zeros(12),
    drive_number     |-> B(target, 28),
    reserved_1       |-> B(target, 29),
    boot_signature   |-> B(target, 30),
    volume_id        |-> U32At(target, 31, 32, 33, 34),
    volume_label     |-> Slice(target, 35, 45),
    fat_type_label   |-> Slice(target, 46, 53) ]

FAT32Ext_from(target) ==
  [ table_size_32    |-> U32At(target, 3, 2, 1, 0),
    extended_flags   |-> U16At(target, 5, 4),
    fat_version      |-> U16At(target, 7, 6),
    root_cluster     |-> U32At(target, 11, 10, 9, 8),
    fat_info         |-> U16At(target, 13, 12),
    backup_bs_sector |-> U16At(target, 15, 14),
    reserved_0       |-> Zeros(12),
    drive_number     |-> B(target, 28),
    reserved_1       |-> B(target, 29),
    boot_signature   |-> B(target, 30),
    volume_id        |-> U32At(target, 34, 33, 32, 31),
    volume_label     |-> Slice(target, 35, 45),
    fat_type_label   |-> Slice(target, 46, 53) ]

\* a value not yet computed
NotYet == [unset |-> TRUE]

(***************************************************************************)
(* Directory slots                                                         *)
(***************************************************************************)
\* the length of main's slot buffer, [0; 32]
SLOT_SIZE == 32

\* Standard8Point3Format::from with the two cluster words exchanged
Standard8Point3Format_from_ClusterSwapped(target) ==
  [ filename                |-> Slice(target, 0, 10),
    attributes              |-> B(target, 11),
    reserved1               |-> B(target, 12),
    created_tenths_seconds  |-> B(target, 13),
    created_time            |-> Slice(target, 14, 15),
    created_date            |-> Slice(target, 16, 17),
    last_access_date        |-> Slice(target, 18, 19),
    highbits_cluster_number |-> Slice(target, 26, 27),
    last_update_time        |-> Slice(target, 22, 23),
    last_update_date        |-> Slice(target, 24, 25),
    lowbits_cluster_number  |-> Slice(target, 20, 21),
    filesize                |-> Slice(target, 28, 31) ]

Standard8Point3Format_from(target) ==
  [ filename                |-> Slice(target, 0, 10),
    attributes              |-> B(target, 11),
    reserved1               |-> B(target, 12),
    created_tenths_seconds  |-> B(target, 13),
    created_time            |-> Slice(target, 14, 15),
    created_date            |-> Slice(target, 16, 17),
    last_access_date        |-> Slice(target, 18, 19),
    highbits_cluster_number |-> Slice(target, 20, 21),
    last_update_time        |-> Slice(target, 22, 23),
    last_update_date        |-> Slice(target, 24, 25),
    lowbits_cluster_number  |-> Slice(target, 26, 27),
    filesize                |-> Slice(target, 28, 31) ]

\* target[0] & (!0x40 & 0x0F)
LongFileName_from(target) ==
  [ order       |-> BitAnd(B(target, 0), BitAnd(BitNot8(64), 15)),
    first5chars |-> Slice(target, 1, 10),
    attribute   |-> B(target, 11),
    entry_type  |-> B(target, 12),
    checksum    |-> B(target, 13),
    next6chars  |-> Slice(target, 14, 25),
    zeros       |-> Slice(target, 26, 27),
    final2chars |-> Slice(target, 28, 31) ]

DirEntry_default ==
  [ long_name |-> << >>,
    meta |-> [ filename                |-> Zeros(11),
               attributes              |-> 0,
               reserved1               |-> 0,
               created_tenths_seconds  |-> 0,
               created_time            |-> Zeros(2),
               created_date            |-> Zeros(2),
               last_access_date        |-> Zeros(2),
               highbits_cluster_number |-> Zeros(2),
               last_update_time        |-> Zeros(2),
               last_update_date        |-> Zeros(2),
               lowbits_cluster_number  |-> Zeros(2),
               filesize                |-> Zeros(4) ] ]

(***************************************************************************)
(* Field extractors                                                        *)
(***************************************************************************)
Digits == << "0", "1", "2", "3", "4", "5", "6", "7", "8", "9" >>

\* "{}" of an unsigned integer: its decimal digits, no padding
RECURSIVE ToDec(_)
ToDec(n) ==
  IF n < 10 THEN << Digits[n + 1] >>
  ELSE ToDec(n \div 10) \o << Digits[(n % 10) + 1] >>

\* datetime() with the seconds field counted in 2-second ticks
datetime_DoubledSeconds(date, time) ==
  LET seconds == 2 * BitAnd(B(time, 0), 31)
      minutes == BitOr(Shl8(BitAnd(B(time, 1), 7), 3),
                       Shr(BitAnd(B(time, 0), 224), 5))
      hours   == Shr(BitAnd(B(time, 1), 248), 3)
      day     == BitAnd(B(date, 0), 31)
      month   == BitOr(Shl8(BitAnd(B(date, 1), 1), 3),
                       Shr(BitAnd(B(date, 0), 224), 5))
      year    == Shr(BitAnd(B(date, 1), 254), 1) + 1980
  IN  ToDec(year) \o << "-" >> \o ToDec(month) \o << "-" >> \o ToDec(day)
      \o << "T" >> \o ToDec(hours) \o << ":" >> \o ToDec(minutes)
      \o << ":" >> \o ToDec(seconds)

datetime(date, time) ==
  LET seconds == BitAnd(B(time, 0), 31)
      minutes == BitOr(Shl8(BitAnd(B(time, 1), 7), 3),
                       Shr(BitAnd(B(time, 0), 224), 5))
      hours   == Shr(BitAnd(B(time, 1), 248), 3)
      day     == BitAnd(B(date, 0), 31)
      month   == BitOr(Shl8(BitAnd(B(date, 1), 1), 3),
                       Shr(BitAnd(B(date, 0), 224), 5))
      year    == Shr(BitAnd(B(date, 1), 254), 1) + 1980
  IN  ToDec(year) \o << "-" >> \o ToDec(month) \o << "-" >> \o ToDec(day)
      \o << "T" >> \o ToDec(hours) \o << ":" >> \o ToDec(minutes)
      \o << ":" >> \o ToDec(seconds)

\* the 13 bytes name() pushes for one part
PartBytes(part) ==
  << B(part.first5chars, 0), B(part.first5chars, 2), B(part.first5chars, 4),
     B(part.first5chars, 6), B(part.first5chars, 8),
     B(part.next6chars, 0), B(part.next6chars, 2), B(part.next6chars, 4),
     B(part.next6chars, 6), B(part.next6chars, 8), B(part.next6chars, 10),
     B(part.final2chars, 0), B(part.final2chars, 2) >>

\* the loop of name() with each part's bytes put behind the earlier ones
RECURSIVE NamePartsAppended(_, _)
NamePartsAppended(long_name, k) ==
  IF k = 0 THEN << >>
  ELSE NamePartsAppended(long_name, k - 1) \o PartBytes(long_name[k])

\* name_parts after the first k turns of name()'s loop: each turn puts the
\* part's bytes in front of what the earlier turns built
RECURSIVE NameParts(_, _)
NameParts(long_name, k) ==
  IF k = 0 THEN << >>
  ELSE PartBytes(long_name[k]) \o NameParts(long_name, k - 1)

\* core::str::utf8_char_width
Utf8CharWidth(b) ==
  IF b < 128 THEN 1
  ELSE IF b \in 194..223 THEN 2
  ELSE IF b \in 224..239 THEN 3
  ELSE IF b \in 240..244 THEN 4
  ELSE 0

SafeGet(s, k) == IF k <= Len(s) THEN s[k] ELSE 0

IsCont(b) == b \in 128..191

REPLACEMENT_CHARACTER == 65533

\* One step of the lossy decoder at s[k]: the bytes it takes and the scalar
\* value it yields (U+FFFD for an invalid sequence, which takes the lead byte
\* and the continuation bytes accepted before the bad one).
Utf8Step(s, k) ==
  LET b  == s[k]
      c1 == SafeGet(s, k + 1)
      c2 == SafeGet(s, k + 2)
      c3 == SafeGet(s, k + 3)
      w  == Utf8CharWidth(b)
      bad(n) == [len |-> n, cp |-> REPLACEMENT_CHARACTER]
      second3 == \/ b = 224 /\ c1 \in 160..191
                 \/ b \in 225..236 /\ c1 \in 128..191
                 \/ b = 237 /\ c1 \in 128..159
                 \/ b \in 238..239 /\ c1 \in 128..191
      second4 == \/ b = 240 /\ c1 \in 144..191
                 \/ b \in 241..243 /\ c1 \in 128..191
                 \/ b = 244 /\ c1 \in 128..143
  IN  IF w = 1 THEN [len |-> 1, cp |-> b]
      ELSE IF w = 2 THEN
        IF IsCont(c1) THEN [len |-> 2, cp |-> (b - 192) * 64 + (c1 - 128)]
        ELSE bad(1)
      ELSE IF w = 3 THEN
        IF ~second3 THEN bad(1)
        ELSE IF ~IsCont(c2) THEN bad(2)
        ELSE [len |-> 3,
              cp |-> (b - 224) * 4096 + (c1 - 128) * 64 + (c2 - 128)]
      ELSE IF w = 4 THEN
        IF ~second4 THEN bad(1)
        ELSE IF ~IsCont(c2) THEN bad(2)
        ELSE IF ~IsCont(c3) THEN bad(3)
        ELSE [len |-> 4,
              cp |-> (b - 240) * 262144 + (c1 - 128) * 4096
                     + (c2 - 128) * 64 + (c3 - 128)]
      ELSE bad(1)

\* String::from_utf8_lossy(&s[k..]) as a sequence of scalar values
RECURSIVE FromUtf8LossyAt(_, _)
FromUtf8LossyAt(s, k) ==
  IF k > Len(s) THEN << >>
  ELSE LET st == Utf8Step(s, k)
       IN  << st.cp >> \o FromUtf8LossyAt(s, k + st.len)

FromUtf8Lossy(s) == FromUtf8LossyAt(s, 1)

name(self) == FromUtf8Lossy(NameParts(self.long_name, Len(self.long_name)))

\* cluster() with the high and the low word exchanged
cluster_WordsSwapped(self) ==
  LET hi == self.meta.lowbits_cluster_number
      lo == self.meta.highbits_cluster_number
  IN  Or32(Or32(Or32(Shl32(U32(B(hi, 1)), 24), Shl32(U32(B(hi, 0)), 16)),
                Shl32(U32(B(lo, 1)), 8)),
           Shl32(U32(B(lo, 0)), 0))

cluster(self) ==
  LET hi == self.meta.highbits_cluster_number
      lo == self.meta.lowbits_cluster_number
  IN  Or32(Or32(Or32(Shl32(U32(B(hi, 1)), 24), Shl32(U32(B(hi, 0)), 16)),
                Shl32(U32(B(lo, 1)), 8)),
           Shl32(U32(B(lo, 0)), 0))

size(self) ==
  LET filesize == self.meta.filesize
  IN  Or32(Or32(Or32(Shl32(U32(B(filesize, 3)), 24),
                     Shl32(U32(B(filesize, 2)), 16)),
                Shl32(U32(B(filesize, 1)), 8)),
           Shl32(U32(B(filesize, 0)), 0))

(***************************************************************************)
(* main: the boot sector and its FAT32 extension (lines 268-279)           *)
(***************************************************************************)
ReadHeader ==
  /\ pc = "main"
  /\ fat_header_buf' = ReadInto(file, pos, fat_header_buf)
  /\ pos' = pos + ReadCount(file, pos, fat_header_buf)
  /\ pc' = "read_ext"
  /\ UNCHANGED << file, fat32_ext_buf, fat_header, fat32_ext, dirVars, out >>

ReadExt ==
  /\ pc = "read_ext"
  /\ fat32_ext_buf' = ReadInto(file, pos, fat32_ext_buf)
  /\ pos' = pos + ReadCount(file, pos, fat32_ext_buf)
  /\ pc' = "decode_header"
  /\ UNCHANGED << file, fat_header_buf, fat_header, fat32_ext, dirVars, out >>

DecodeHeader ==
  /\ pc = "decode_header"
  /\ fat_header' = FATHeader_from(fat_header_buf)
  /\ pc' = "decode_ext"
  /\ UNCHANGED << file, pos, fat_header_buf, fat32_ext_buf, fat32_ext,
                  dirVars, out >>

DecodeExt ==
  /\ pc = "decode_ext"
  /\ fat32_ext' = FAT32Ext_from(fat32_ext_buf)
  /\ pc' = "print"
  /\ UNCHANGED << file, pos, fat_header_buf, fat32_ext_buf, fat_header,
                  dirVars, out >>

PrintBoot ==
  /\ pc = "print"
  /\ out' = << fat_header, fat32_ext >>
  /\ pc' = "exit"
  /\ UNCHANGED << file, pos, bootVars, dirVars >>

(***************************************************************************)
(* main: the directory scan (lines 281-314)                                *)
(***************************************************************************)
\* the turn of the loop without the reset of current_entry after an entry
\* is pushed
ScanBody_NoReset(cur, entries, buf) ==
  IF B(buf, 0) = 0 THEN [brk |-> TRUE, cur |-> cur, entries |-> entries]
  ELSE IF B(buf, 11) = 15 THEN
    [ brk |-> FALSE,
      cur |-> [cur EXCEPT !.long_name = Append(@, LongFileName_from(buf))],
      entries |-> entries ]
  ELSE
    [ brk |-> FALSE,
      cur |-> [cur EXCEPT !.meta = Standard8Point3Format_from(buf)],
      entries |->
        Append(entries, [cur EXCEPT !.meta = Standard8Point3Format_from(buf)]) ]

\* One turn of the for loop on the slot just read: break on a zero first
\* byte, push a long-name part, or complete an entry and start a new one.
ScanBody(cur, entries, buf) ==
  IF B(buf, 0) = 0 THEN [brk |-> TRUE, cur |-> cur, entries |-> entries]
  ELSE IF B(buf, 11) = 15 THEN
    [ brk |-> FALSE,
      cur |-> [cur EXCEPT !.long_name = Append(@, LongFileName_from(buf))],
      entries |-> entries ]
  ELSE
    [ brk |-> FALSE,
      cur |-> DirEntry_default,
      entries |->
        Append(entries, [cur EXCEPT !.meta = Standard8Point3Format_from(buf)]) ]

Seek ==
  /\ pc = "dir_main"
  /\ pos' = dirs_start_offset
  /\ pc' = "loop"
  /\ UNCHANGED << file, bootVars, dirVars, out >>

\* the slot in buffer after this turn's file.read
NextSlot == ReadInto(file, pos, buffer)

ScanBreak ==
  /\ pc = "loop"
  /\ i < no_entries
  /\ ScanBody(current_entry, dir_entries, NextSlot).brk
  /\ buffer' = NextSlot
  /\ pos' = pos + ReadCount(file, pos, buffer)
  /\ pc' = "display"
  /\ UNCHANGED << file, bootVars, dirs_start_offset, no_entries, i,
                  current_entry, dir_entries, out >>

ScanLongName ==
  /\ pc = "loop"
  /\ i < no_entries
  /\ B(NextSlot, 0) # 0
  /\ B(NextSlot, 11) = 15
  /\ buffer' = NextSlot
  /\ pos' = pos + ReadCount(file, pos, buffer)
  /\ current_entry' = ScanBody(current_entry, dir_entries, NextSlot).cur
  /\ dir_entries' = ScanBody(current_entry, dir_entries, NextSlot).entries
  /\ i' = i + 1
  /\ UNCHANGED << file, pc, bootVars, dirs_start_offset, no_entries, out >>

ScanShort ==
  /\ pc = "loop"
  /\ i < no_entries
  /\ B(NextSlot, 0) # 0
  /\ B(NextSlot, 11) # 15
  /\ buffer' = NextSlot
  /\ pos' = pos + ReadCount(file, pos, buffer)
  /\ current_entry' = ScanBody(current_entry, dir_entries, NextSlot).cur
  /\ dir_entries' = ScanBody(current_entry, dir_entries, NextSlot).entries
  /\ i' = i + 1
  /\ UNCHANGED << file, pc, bootVars, dirs_start_offset, no_entries, out >>

LoopExit ==
  /\ pc = "loop"
  /\ i = no_entries
  /\ pc' = "display"
  /\ UNCHANGED << file, pos, bootVars, dirVars, out >>

\* the println! of dir_entries[0]
DisplayFirst ==
  /\ pc = "display"
  /\ dir_entries # << >>
  /\ out' = [ size_k   |-> Div1024(size(dir_entries[1])),
              datetime |-> datetime(dir_entries[1].meta.created_date,
                                    dir_entries[1].meta.created_time),
              name     |-> name(dir_entries[1]),
              cluster  |-> cluster(dir_entries[1]) ]
  /\ pc' = "exit"
  /\ UNCHANGED << file, pos, bootVars, dirVars >>

\* dir_entries[0] on an empty Vec: index out of bounds
DisplayPanic ==
  /\ pc = "display"
  /\ dir_entries = << >>
  /\ pc' = "panicked"
  /\ UNCHANGED << file, pos, bootVars, dirVars, out >>

(***************************************************************************)
(* Inputs                                                                  *)
(***************************************************************************)
\* Boot images: 96 distinct bytes, four of them overwritten at the start of
\* one integer field, cut to one of three lengths (a file may be shorter
\* than the two windows main reads).
BaseImage == [k \in 1..96 |-> ((k - 1) * 7 + 3) % 256]

FieldOffsets == {11, 14, 17, 19, 22, 24, 26, 28, 32,
                 36, 40, 42, 44, 48, 50, 67}

BootBytes == {0, 1, 128, 255}

ImageLens == {96, 60, 20}

BootImages ==
  { SubSeq([k \in 1..96 |->
              IF k - 1 \in o..(o + 3) THEN v[k - o] ELSE BaseImage[k]], 1, n) :
      o \in FieldOffsets,
      v \in [1..4 -> BootBytes],
      n \in ImageLens }

\* A long-name slot: the order byte, 13 UCS-2 code units given as their low
\* and high bytes, attribute 0x0F, type 0, a checksum, two zero bytes.
FragSlot(order, lows, highs, checksum) ==
  [k \in 1..SLOT_SIZE |->
     LET j == k - 1
         unit(u, odd) == IF odd = 0 THEN lows[u] ELSE highs[u]
     IN  IF j = 0 THEN order
         ELSE IF j \in 1..10 THEN unit(((j - 1) \div 2) + 1, (j - 1) % 2)
         ELSE IF j = 11 THEN 15
         ELSE IF j = 12 THEN 0
         ELSE IF j = 13 THEN checksum
         ELSE IF j \in 14..25 THEN unit(((j - 14) \div 2) + 6, (j - 14) % 2)
         ELSE IF j \in 26..27 THEN 0
         ELSE unit(((j - 28) \div 2) + 12, (j - 28) % 2)]

\* A short slot: attribute attr, every other byte in 1..251
ShortSlot(seed, attr) ==
  [k \in 1..SLOT_SIZE |-> IF k = 12 THEN attr ELSE ((seed + 5 * k) % 251) + 1]

\* order 1: "averylongfile"
Frag1 ==
  FragSlot(1, << 97, 118, 101, 114, 121, 108, 111, 110, 103, 102, 105, 108, 101 >>,
           [u \in 1..13 |-> 0], 77)

\* order 2 with the last-fragment flag: "name-", C3 A9, ".", E2 82, "txt";
\* high bytes 04
Frag2 ==
  FragSlot(66, << 110, 97, 109, 101, 45, 195, 169, 46, 226, 130, 116, 120, 116 >>,
           [u \in 1..13 |-> 4], 77)

\* order 3: ".bak", the 0x0000 terminator, 0xFFFF padding
Frag3 ==
  FragSlot(3, << 46, 98, 97, 107, 0, 255, 255, 255, 255, 255, 255, 255, 255 >>,
           [u \in 1..13 |-> IF u <= 5 THEN 0 ELSE 255], 77)

ShortA == ShortSlot(7, 32)

ShortB == ShortSlot(100, 16)

\* first byte 0x00 (end of directory); the other bytes are those of Frag1
EndSlot == [Frag1 EXCEPT ![1] = 0]

SlotSet == {Frag1, Frag2, Frag3, ShortA, ShortB, EndSlot}

\* the most whole slots a directory region holds
MaxSlots == 3

\* the largest entry count asked for
MaxEntries == 4

\* bytes after the last whole slot: none, or the first 12 bytes of a slot
Tails == {<< >>, SubSeq(ShortB, 1, 12)}

RECURSIVE Flatten(_)
Flatten(ss) == IF ss = << >> THEN << >> ELSE Head(ss) \o Flatten(Tail(ss))

DirImages ==
  { Flatten(ss) \o t :
      ss \in UNION {[1..n -> SlotSet] : n \in 0..MaxSlots}, t \in Tails }

Offsets == {0, 32}

\* Slots whose fields take many values: a short slot with its cluster words,
\* or its creation date and time, replaced; a long-name slot with each first
\* byte.
ClusterBytes == {0, 2, 5, 128, 255}

DateTimeBytes == {0, 1, 31, 83, 74, 192, 207, 255}

FieldSlots ==
  { [ShortA EXCEPT ![21] = v[1], ![22] = v[2], ![27] = v[3], ![28] = v[4]] :
      v \in [1..4 -> ClusterBytes] }
  \cup
  { [ShortA EXCEPT ![15] = v[1], ![16] = v[2], ![17] = v[3], ![18] = v[4]] :
      v \in [1..4 -> DateTimeBytes] }
  \cup
  { [Frag1 EXCEPT ![1] = b] : b \in Byte }

(***************************************************************************)
(* Specifications                                                          *)
(***************************************************************************)
\* main as compiled: the boot sector and the extension of an image
Init ==
  /\ file \in BootImages
  /\ pos = 0
  /\ pc = "main"
  /\ fat_header_buf = Zeros(FATHEADER_SIZE)
  /\ fat32_ext_buf = Zeros(FAT32EXT_SIZE)
  /\ fat_header = NotYet
  /\ fat32_ext = NotYet
  /\ dirs_start_offset = 0
  /\ no_entries = 0
  /\ i = 0
  /\ buffer = Zeros(SLOT_SIZE)
  /\ current_entry = DirEntry_default
  /\ dir_entries = << >>
  /\ out = NotYet

Next == ReadHeader \/ ReadExt \/ DecodeHeader \/ DecodeExt \/ PrintBoot

Spec == Init /\ [][Next]_vars

DirCommon ==
  /\ pos = 0
  /\ pc = "dir_main"
  /\ fat_header_buf = Zeros(FATHEADER_SIZE)
  /\ fat32_ext_buf = Zeros(FAT32EXT_SIZE)
  /\ fat_header = NotYet
  /\ fat32_ext = NotYet
  /\ i = 0
  /\ buffer = Zeros(SLOT_SIZE)
  /\ current_entry = DirEntry_default
  /\ dir_entries = << >>
  /\ out = NotYet

\* the directory scan of a region of slots
DirInit ==
  /\ file \in DirImages
  /\ dirs_start_offset \in Offsets
  /\ no_entries \in 0..MaxEntries
  /\ DirCommon

DirNext ==
  \/ Seek
  \/ ScanBreak
  \/ ScanLongName
  \/ ScanShort
  \/ LoopExit
  \/ DisplayFirst
  \/ DisplayPanic

SpecDir == DirInit /\ [][DirNext]_vars

\* the directory scan of one slot, over many values of its fields
FieldsInit ==
  /\ file \in FieldSlots
  /\ dirs_start_offset = 0
  /\ no_entries = 1
  /\ DirCommon

SpecFields == FieldsInit /\ [][DirNext]_vars

(***************************************************************************)
(* Properties: the boot sector and the extension (Spec)                    *)
(***************************************************************************)
\* the little-endian bytes of a u16 and of a u32
LE16(v) == << v % 256, v \div 256 >>

LE32(v) == << v.lo % 256, v.lo \div 256, v.hi % 256, v.hi \div 256 >>

\* The 16-bit fields of the header are the little-endian values of their bytes.
Header16RoundTrip ==
  fat_header # NotYet =>
    /\ LE16(fat_header.bytes_per_sector) = Slice(fat_header_buf, 11, 12)
    /\ LE16(fat_header.reserved_sector_count) = Slice(fat_header_buf, 14, 15)
    /\ LE16(fat_header.root_entry_count) = Slice(fat_header_buf, 17, 18)
    /\ LE16(fat_header.total_sectors_16) = Slice(fat_header_buf, 19, 20)
    /\ LE16(fat_header.table_size_16) = Slice(fat_header_buf, 22, 23)
    /\ LE16(fat_header.sectors_per_track) = Slice(fat_header_buf, 24, 25)
    /\ LE16(fat_header.head_side_count) = Slice(fat_header_buf, 26, 27)

\* C1: every 16-bit and every 32-bit field FATHeader::from decodes is the
\* little-endian value of its bytes: encoding the decoded integer
\* little-endian gives back the bytes of the 36-byte window.
C1_HeaderRoundTrip ==
  fat_header # NotYet =>
    /\ Header16RoundTrip
    /\ LE32(fat_header.hidden_sector_count) = Slice(fat_header_buf, 28, 31)
    /\ LE32(fat_header.total_sectors_32) = Slice(fat_header_buf, 32, 35)

\* C2: every multi-byte integer field FAT32Ext::from decodes is the
\* little-endian value of its bytes: encoding the decoded integer
\* little-endian gives back the bytes of the window.
C2_ExtRoundTrip ==
  fat32_ext # NotYet =>
    /\ LE32(fat32_ext.table_size_32) = Slice(fat32_ext_buf, 0, 3)
    /\ LE16(fat32_ext.extended_flags) = Slice(fat32_ext_buf, 4, 5)
    /\ LE16(fat32_ext.fat_version) = Slice(fat32_ext_buf, 6, 7)
    /\ LE32(fat32_ext.root_cluster) = Slice(fat32_ext_buf, 8, 11)
    /\ LE16(fat32_ext.fat_info) = Slice(fat32_ext_buf, 12, 13)
    /\ LE16(fat32_ext.backup_bs_sector) = Slice(fat32_ext_buf, 14, 15)
    /\ LE32(fat32_ext.volume_id) = Slice(fat32_ext_buf, 31, 34)

\* An extension decoded from a window whose table size bytes are 01 00 00 80
\* and whose volume id bytes are not a palindrome.
C2_Witness ==
  /\ pc = "exit"
  /\ Slice(fat32_ext_buf, 0, 3) = << 1, 0, 0, 128 >>
  /\ fat32_ext.table_size_32 = [hi |-> 32768, lo |-> 1]
  /\ Slice(fat32_ext_buf, 31, 34) = << 216, 223, 230, 237 >>

(***************************************************************************)
(* Properties: the directory scan (SpecDir)                                *)
(***************************************************************************)
\* The region as the slots it holds: the whole 32-byte slots the file has
\* from dirs_start_offset on.
NumWhole ==
  IF Len(file) <= dirs_start_offset THEN 0
  ELSE (Len(file) - dirs_start_offset) \div SLOT_SIZE

RegionSlot(k) ==
  SubSeq(file, dirs_start_offset + SLOT_SIZE * (k - 1) + 1,
         dirs_start_offset + SLOT_SIZE * k)

\* the bytes of a decoded short entry, in slot order
MetaBytes(m) ==
  m.filename \o << m.attributes, m.reserved1, m.created_tenths_seconds >>
  \o m.created_time \o m.created_date \o m.last_access_date
  \o m.highbits_cluster_number \o m.last_update_time \o m.last_update_date
  \o m.lowbits_cluster_number \o m.filesize

\* the bytes 1..31 of a decoded long-name part, in slot order
PartTail(p) ==
  p.first5chars \o << p.attribute, p.entry_type, p.checksum >>
  \o p.next6chars \o p.zeros \o p.final2chars

\* the indexes, among the first m slots, of those whose byte 11 is not 0x0F
ShortIdx(m) ==
  LET isShort(k) == B(RegionSlot(k), 11) # 15
  IN  SelectSeq([k \in 1..m |-> k], isShort)

\* p is exactly the long-name slots a+1 .. b of the region, in scan order
PartsAre(p, a, b) ==
  /\ Len(p) = b - a
  /\ \A t \in 1..(b - a) :
       /\ B(RegionSlot(a + t), 11) = 15
       /\ PartTail(p[t]) = Tail(RegionSlot(a + t))

\* the for loop has read a slot whose first byte is 0x00 and left
Broke == pc \in {"display", "exit", "panicked"} /\ i < no_entries

\* C3: while the scan is within the region's slots and has met no
\* end-of-directory slot, each slot whose byte 11 is not 0x0F has emitted
\* exactly one entry, in order, holding that slot as its short entry and
\* exactly the long-name slots scanned since the previous such slot; the
\* accumulator holds exactly the long-name slots scanned since the last
\* emitted entry, so it is empty right after an entry is emitted and no
\* fragment is in two entries.
C3_OneEntryPerShortSlot ==
  (pc # "dir_main" /\ i <= NumWhole) =>
    LET sh == ShortIdx(i)
        last == IF sh = << >> THEN 0 ELSE sh[Len(sh)]
    IN  /\ Len(dir_entries) = Len(sh)
        /\ \A j \in 1..Len(sh) :
             /\ MetaBytes(dir_entries[j].meta) = RegionSlot(sh[j])
             /\ PartsAre(dir_entries[j].long_name,
                         IF j = 1 THEN 0 ELSE sh[j - 1], sh[j] - 1)
        /\ PartsAre(current_entry.long_name, last, i)
        /\ current_entry.meta = DirEntry_default.meta

\* Two fragments then a short slot have been scanned: one entry holds both
\* fragments and the accumulator is empty again.
C3_Witness ==
  /\ pc = "loop"
  /\ i = 3
  /\ i <= NumWhole
  /\ Len(dir_entries) = 1
  /\ Len(dir_entries[1].long_name) = 2
  /\ MetaBytes(dir_entries[1].meta) = RegionSlot(3)
  /\ current_entry.long_name = << >>

\* Once a slot with first byte 0x00 is read the scan has stopped: the entries
\* are those of the slots before it, and fragments pending are not emitted.
EndOfDirectoryStops ==
  Broke =>
    /\ i <= NumWhole
    /\ Len(dir_entries) = Len(ShortIdx(i))
    /\ \A j \in 1..Len(dir_entries) :
         MetaBytes(dir_entries[j].meta) = RegionSlot(ShortIdx(i)[j])

\* C4: once a slot whose first byte is 0x00 is read, the scan stops: nothing
\* is emitted for that slot or a later one, pending fragments are not
\* emitted, the entries emitted before are unchanged; and when the first
\* slot's first byte is 0x00 the scan yields an empty sequence without error.
C4_EndOfDirectory ==
  /\ EndOfDirectoryStops
  /\ (Broke /\ i = 0) => (dir_entries = << >> /\ pc # "panicked")

\* the low bytes of the 13 code units of a long-name slot, in storage order
LowBytes(slot) ==
  << B(slot, 1), B(slot, 3), B(slot, 5), B(slot, 7), B(slot, 9),
     B(slot, 14), B(slot, 16), B(slot, 18), B(slot, 20), B(slot, 22),
     B(slot, 24), B(slot, 28), B(slot, 30) >>

\* The region is exactly n long-name slots of orders n, ..., 1 (the low five
\* bits of the first byte) and then one short slot, and the scan is asked
\* for those n + 1 slots.
DescendingRun(n) ==
  /\ n >= 1
  /\ Len(file) = dirs_start_offset + SLOT_SIZE * (n + 1)
  /\ no_entries = n + 1
  /\ \A k \in 1..n :
       /\ B(RegionSlot(k), 0) # 0
       /\ B(RegionSlot(k), 11) = 15
       /\ B(RegionSlot(k), 0) % 32 = n - k + 1
  /\ B(RegionSlot(n + 1), 0) # 0
  /\ B(RegionSlot(n + 1), 11) # 15

\* the low bytes of fragment order 1, then order 2, ... up to order n
RECURSIVE AscendingLowBytes(_, _)
AscendingLowBytes(n, o) ==
  IF o > n THEN << >>
  ELSE LowBytes(RegionSlot(n - o + 1)) \o AscendingLowBytes(n, o + 1)

\* C5 as stated: the name is those low bytes themselves.
C5_NameIsLowBytes ==
  \A n \in 1..MaxSlots :
    (pc = "exit" /\ DescendingRun(n)) =>
      /\ Len(dir_entries) = 1
      /\ out.name = AscendingLowBytes(n, 1)

\* C5, amended: for n fragments in descending order on disk and one short
\* slot, scanned with an entry count of n + 1, the scan produces one entry
\* and name() is the lossy UTF-8 decoding of the low bytes of the order-1
\* fragment, then those of order 2, ... up to order n; the name is those
\* bytes themselves when all of them are below 0x80.
C5_NameIsLossyLowBytes ==
  \A n \in 1..MaxSlots :
    (pc = "exit" /\ DescendingRun(n)) =>
      /\ Len(dir_entries) = 1
      /\ Len(dir_entries[1].long_name) = n
      /\ out.name = FromUtf8Lossy(AscendingLowBytes(n, 1))
      /\ (\A k \in 1..(13 * n) : AscendingLowBytes(n, 1)[k] < 128)
           => out.name = AscendingLowBytes(n, 1)

\* Orders 2 then 1 on disk: the name starts with the 13 characters of the
\* order-1 fragment, "averylongfile", and goes on with "name-".
C5_Witness ==
  /\ pc = "exit"
  /\ DescendingRun(2)
  /\ SubSeq(out.name, 1, 18) =
       << 97, 118, 101, 114, 121, 108, 111, 110, 103, 102, 105, 108, 101,
          110, 97, 109, 101, 45 >>

\* the calls of file.read the loop has made
ReadsIssued == i + (IF Broke THEN 1 ELSE 0)

\* some read of the loop returned fewer than 32 bytes
ShortRead == pos - dirs_start_offset < SLOT_SIZE * ReadsIssued

\* C6: a scan that reaches the end of the available bytes fails with
\* TruncatedInput: it does not go on or return a list after a short or empty
\* read, and it processes no slot's bytes more than once.
C6_TruncatedInputFails ==
  pc # "dir_main" =>
    /\ ShortRead => pc = "truncated_input"
    /\ i <= NumWhole

(***************************************************************************)
(* Properties: the field extractors (SpecFields)                           *)
(***************************************************************************)
\* the little-endian 16-bit value of two bytes
Word(b) == b[1] + 256 * b[2]

\* C7: for every short entry, cluster() is the 32-bit value whose bits 16-31
\* are the little-endian value of highbits_cluster_number and whose bits 0-15
\* are the little-endian value of lowbits_cluster_number.
C7_ClusterWords ==
  /\ \A k \in 1..Len(dir_entries) :
       cluster(dir_entries[k]) =
         [ hi |-> Word(dir_entries[k].meta.highbits_cluster_number),
           lo |-> Word(dir_entries[k].meta.lowbits_cluster_number) ]
  /\ pc = "exit" =>
       /\ out.cluster.hi = B(buffer, 21) * 256 + B(buffer, 20)
       /\ out.cluster.lo = B(buffer, 27) * 256 + B(buffer, 26)

\* high word bytes 02 80, low word bytes 05 FF: cluster 0x8002FF05
C7_Witness ==
  /\ pc = "exit"
  /\ dir_entries[1].meta.highbits_cluster_number = << 2, 128 >>
  /\ dir_entries[1].meta.lowbits_cluster_number = << 5, 255 >>
  /\ out.cluster = [hi |-> 32770, lo |-> 65285]

\* "Y-M-DTh:m:s" of six numbers, unpadded
Rendered(Y, M, D, h, m, sec) ==
  ToDec(Y) \o << "-" >> \o ToDec(M) \o << "-" >> \o ToDec(D) \o << "T" >>
  \o ToDec(h) \o << ":" >> \o ToDec(m) \o << ":" >> \o ToDec(sec)

\* C8: datetime() of a date and a time, each read as a little-endian word,
\* is "Y-M-DTh:m:s" unpadded with Y = 1980 + date bits 9-15, M = date bits
\* 5-8, D = date bits 0-4, h = time bits 11-15, m = time bits 5-10, s = time
\* bits 0-4; year offset 37, month 6, day 15, 10:30 and tick 0 give
\* "2017-6-15T10:30:0".
C8_DateTimeFields ==
  pc = "exit" =>
    LET d == Word(dir_entries[1].meta.created_date)
        t == Word(dir_entries[1].meta.created_time)
    IN  /\ out.datetime =
             Rendered(1980 + (d \div 512), (d \div 32) % 16, d % 32,
                      t \div 2048, (t \div 32) % 64, t % 32)
        /\ (d = 37 * 512 + 6 * 32 + 15 /\ t = 10 * 2048 + 30 * 32 + 0) =>
             out.datetime = << "2", "0", "1", "7", "-", "6", "-", "1", "5",
                               "T", "1", "0", ":", "3", "0", ":", "0" >>

\* the date bytes CF 4A (year offset 37, month 6, day 15) and the time bytes
\* C0 53 (10:30, tick 0) have been rendered
C8_Witness ==
  /\ pc = "exit"
  /\ dir_entries[1].meta.created_date = << 207, 74 >>
  /\ dir_entries[1].meta.created_time = << 192, 83 >>
  /\ Len(out.datetime) = 17

\* the slot of the spec's example: bytes 20..21 are 02 00, bytes 26..27 05 00
C9_Slot ==
  /\ pc = "exit"
  /\ Slice(buffer, 20, 21) = << 2, 0 >>
  /\ Slice(buffer, 26, 27) = << 5, 0 >>

\* C9 as stated: cluster() of that entry is 0x00000205.
C9_Cluster205 == C9_Slot => out.cluster = [hi |-> 0, lo |-> 2 * 256 + 5]

\* C9, amended: cluster() of that entry is 0x00020005 (high word 0x0002, low
\* word 0x0005).
C9_Cluster20005 ==
  C9_Slot =>
    /\ dir_entries[1].meta.highbits_cluster_number = << 2, 0 >>
    /\ dir_entries[1].meta.lowbits_cluster_number = << 5, 0 >>
    /\ out.cluster = [hi |-> 2, lo |-> 5]

C9_Witness == C9_Slot /\ Len(dir_entries) = 1 /\ out.cluster.hi = 2

\* C10: the order of a decoded long-name slot is the low five bits of the
\* slot's first byte, so the orders 1..31 stay apart.
C10_OrderLowFiveBits ==
  \A k \in 1..Len(current_entry.long_name) :
    (pc = "loop" /\ B(buffer, 11) = 15) =>
      current_entry.long_name[k].order = B(buffer, 0) % 32

====
